---- MODULE Spec2Model ----
(***************************************************************************)
(* jira_export.py: Jira issue export.  main() resolves the source query,   *)
(* fetch_all_issues() discovers issue ids by cursor pagination and bulk    *)
(* fetches them in chunks, push_to_gsheet() overwrites the first worksheet *)
(* of a Google Sheet and main() then writes the local Excel file.          *)
(*                                                                         *)
(* Conventions.  Python None of a string-valued slot is the string None.   *)
(* A text that the program parses (JIRA_JQL, JIRA_FILTER_ID, Retry-After)  *)
(* is a record [present, text] whose text is a sequence of one-character   *)
(* strings, so that str.strip() and int() are computed, not assumed.       *)
(***************************************************************************)
EXTENDS Integers, Sequences, FiniteSets, TLC

VARIABLES
    pc,          \* position of the run
    env,         \* the environment variables the program reads
    filters,     \* the tracker's answer to the filter name search
    active_jql,  \* main: the resolved query (sequence of characters)
    script,      \* the tracker's search endpoint: the pages it serves, in order
    served,      \* number of search pages served so far
    ids,         \* search_issue_ids_by_jql: ids
    next_token,  \* search_issue_ids_by_jql: next_token
    i,           \* bulk_fetch_issues: loop index i
    out,         \* bulk_fetch_issues: out
    issues,      \* main: issues (result of fetch_all_issues)
    log,         \* every HTTP request sent to the tracker, with the status it got
    sleeps,      \* every time.sleep(wait) performed, in order
    error,       \* the exception that ended the run, if any
    df,          \* main: the table
    sheet,       \* the first worksheet of the remote spreadsheet
    sheet0,      \* that worksheet as it was before the first run
    row_i,       \* push_to_gsheet: loop index i of the chunked data write
    ops,         \* remote calls that completed in the current push_to_gsheet
    caught,      \* the exception push_to_gsheet caught, if any
    pushes,      \* number of push_to_gsheet calls so far
    first_push,  \* the sheet values left by the first push_to_gsheet call
    excel,       \* the local file jira_export.xlsx
    exit_status  \* exit status of the process

vars == <<pc, env, filters, active_jql, script, served, ids, next_token, i, out,
          issues, log, sleeps, error, df, sheet, sheet0, row_i, ops, caught, pushes,
          first_push, excel, exit_status>>

srcVars == <<env, filters, active_jql>>
fetchVars == <<script, served, ids, next_token, i, out, issues, log, sleeps>>
sinkVars == <<df, sheet, sheet0, row_i, ops, caught, pushes, first_push, excel>>

None == "None"

-----------------------------------------------------------------------------
(* Tuning constants of the program *)

MAX_RESULTS == 100
REQUEST_TIMEOUT == 30
RETRY_429_SECONDS == 10
BULK_FETCH_CHUNK == 100

(* Bounds of the model *)

MaxPages == 2      \* pages in the search endpoint's script
Max429 == 2        \* 429 responses in one run
MaxRows == 2       \* rows of the table handed to the sinks
MaxPriorRows == 4  \* rows of the worksheet before the run
MaxPriorCols == 12 \* columns of the worksheet before the run
MaxRuns == 2       \* runs of the program on the same worksheet
MaxIssues == 3     \* raw issues handed to the normalisation

-----------------------------------------------------------------------------
(* Texts *)

Unset == [present |-> FALSE, text |-> <<>>]
Text(s) == [present |-> TRUE, text |-> s]

\* Python truthiness of an Optional[str]
Truthy(v) == v.present /\ v.text # <<>>

Max(a, b) == IF a >= b THEN a ELSE b
Min(a, b) == IF a <= b THEN a ELSE b

IsSpace(c) == c = " "
Digit == [c \in {"0", "1", "2", "3", "4", "5", "6", "7", "8", "9"} |->
            CASE c = "0" -> 0 [] c = "1" -> 1 [] c = "2" -> 2 [] c = "3" -> 3
              [] c = "4" -> 4 [] c = "5" -> 5 [] c = "6" -> 6 [] c = "7" -> 7
              [] c = "8" -> 8 [] c = "9" -> 9]
IsDigit(c) == c \in DOMAIN Digit

RECURSIVE LStrip(_)
LStrip(s) == IF s # <<>> /\ IsSpace(Head(s)) THEN LStrip(Tail(s)) ELSE s

RECURSIVE RStrip(_)
RStrip(s) ==
    IF s # <<>> /\ IsSpace(s[Len(s)]) THEN RStrip(SubSeq(s, 1, Len(s) - 1)) ELSE s

\* str.strip()
Strip(s) == RStrip(LStrip(s))

RECURSIVE DigitsValue(_)
DigitsValue(s) ==
    IF s = <<>> THEN 0 ELSE 10 * DigitsValue(SubSeq(s, 1, Len(s) - 1)) + Digit[s[Len(s)]]

\* int(s): surrounding whitespace is ignored, one optional sign, then digits
Unsigned(s) ==
    LET t == Strip(s) IN IF t # <<>> /\ Head(t) \in {"+", "-"} THEN Tail(t) ELSE t
IntParses(s) ==
    LET u == Unsigned(s) IN u # <<>> /\ \A k \in 1..Len(u) : IsDigit(u[k])
IntValue(s) ==
    LET t == Strip(s) IN
    IF Head(t) = "-" THEN 0 - DigitsValue(Unsigned(s)) ELSE DigitsValue(Unsigned(s))

RECURSIVE NatStr(_)
NatStr(n) ==
    LET d == CHOOSE c \in DOMAIN Digit : Digit[c] = n % 10
    IN IF n < 10 THEN <<d>> ELSE NatStr(n \div 10) \o <<d>>

\* str(n) of an int, as f"{n}" formats it
IntStr(n) == IF n < 0 THEN <<"-">> \o NatStr(0 - n) ELSE NatStr(n)

-----------------------------------------------------------------------------
(* Exceptions *)

NoError == [kind |-> "none", at |-> "", status |-> 0, text |-> ""]
Raised(kind, at, status, text) ==
    [kind |-> kind, at |-> at, status |-> status, text |-> text]

-----------------------------------------------------------------------------
(* JSON values of a raw issue: null, a string, a mapping.  The text of a    *)
(* date is a sequence of characters, so that strptime is computed.          *)

Null == [t |-> "null"]
Str(s) == [t |-> "str", s |-> s]
Map(m) == [t |-> "map", m |-> m]

\* (cur or {}).get(k), for cur a mapping or null as the tracker's schema has the
\* values on a lookup path
Get(cur, k) == IF cur.t = "map" /\ k \in DOMAIN cur.m THEN cur.m[k] ELSE Null

CREATED_1 ==
    Str(<<"2", "0", "2", "5", "-", "0", "5", "-", "2", "7", "T", "1", "1", ":",
          "5", "6", ":", "1", "7", ".", "5", "6", "3", "+", "0", "7", "0", "0">>)
CREATED_2 ==
    Str(<<"2", "0", "2", "5", "-", "0", "9", "-", "0", "8", "T", "1", "4", ":",
          "5", "5", ":", "0", "3", ".", "1", "0", "0", "+", "0", "7", "0", "0">>)

Named(k, v) == Map([x \in {k} |-> v])

\* The records of the tracker that the bulk fetch endpoint serves, by the
\* identifier the search returned
IssueFull ==
    [id |-> "10001", key |-> "PRJ-1",
     fields |-> Map([summary |-> Str("Fix login"),
                     assignee |-> Named("displayName", Str("Ann")),
                     reporter |-> Named("displayName", Str("Bob")),
                     priority |-> Named("name", Str("High")),
                     status |-> Named("name", Str("Done")),
                     resolution |-> Named("name", Str("Done")),
                     created |-> CREATED_2, updated |-> CREATED_2,
                     duedate |-> Str(<<"2", "0", "2", "5", "-", "0", "9", "-", "3", "0">>)])]
IssueSparse ==
    [id |-> "10002", key |-> "PRJ-2",
     fields |-> Map([summary |-> Str("Crash"),
                     assignee |-> Null,
                     reporter |-> Named("displayName", Str("Bob")),
                     status |-> Named("name", Str("Open")),
                     resolution |-> Null,
                     created |-> CREATED_1, updated |-> CREATED_2, duedate |-> Null])]
IssueNoDates ==
    [id |-> "10003", key |-> "PRJ-3",
     fields |-> Map([summary |-> Null,
                     assignee |-> Named("accountId", Str("u1")),
                     reporter |-> Named("displayName", Null),
                     status |-> Named("name", Null),
                     resolution |-> Named("name", Null),
                     created |-> Str(<<>>), updated |-> Null])]
IssueFieldsNull == [id |-> "10004", key |-> "PRJ-4", fields |-> Null]
IssueNoFields == [id |-> "10005", key |-> "PRJ-5"]
IssueNoKey ==
    [id |-> "10006",
     fields |-> Map([summary |-> Str("No key"),
                     resolution |-> Named("name", Str("")),
                     created |-> CREATED_1, updated |-> CREATED_1])]
IssueDateOnly ==
    [id |-> "10007", key |-> "PRJ-7",
     fields |-> Map([summary |-> Str("Old format"),
                     created |-> Str(<<"2", "0", "2", "5", "-", "0", "5", "-", "2", "7">>)])]
IssueDueSlashes ==
    [id |-> "10008", key |-> "PRJ-8",
     fields |-> Map([summary |-> Str("Due"), created |-> CREATED_2,
                     updated |-> CREATED_2,
                     duedate |-> Str(<<"3", "0", "/", "0", "9", "/", "2", "0", "2", "5">>)])]

Stored ==
    {IssueFull, IssueSparse, IssueNoDates, IssueFieldsNull, IssueNoFields, IssueNoKey,
     IssueDateOnly, IssueDueSlashes}

-----------------------------------------------------------------------------
(* The tracker, seen from the program *)

\* Python truthiness of a token, id or key
Tru(x) == x # None /\ x # ""
\* a or b
Or(a, b) == IF Tru(a) THEN a ELSE b

ItemA == [id |-> "10001", key |-> "PRJ-1"]
ItemB == [id |-> None, key |-> "PRJ-2"]
FullPage == [k \in 1..MAX_RESULTS |-> [id |-> ToString(20000 + k), key |-> None]]

HalfPage ==
    <<ItemB, ItemA>> \o [k \in 1..48 |-> [id |-> ToString(30000 + k), key |-> None]]

Pages ==
    {[issues |-> c, cursor |-> k] : c \in {<<>>, HalfPage, FullPage}, k \in {"token", "none"}}
        \cup {[issues |-> <<ItemA>>, cursor |-> "empty"]}

\* A script is the sequence of pages the search endpoint serves; the page that
\* ends it carries no usable cursor, so no request goes past its end.
ScriptsUpTo(n) ==
    {s \in UNION {[1..m -> Pages] : m \in 1..n} : s[Len(s)].cursor # "token"}

\* JSON body of the k-th page
ServerPage(k) ==
    [issues |-> script[k].issues,
     nextPageToken |-> CASE script[k].cursor = "token" -> "page-" \o ToString(k + 1)
                         [] script[k].cursor = "empty" -> ""
                         [] OTHER -> None]

\* A raw issue of the bulk fetch endpoint: the stored record of that identifier
\* (by id or by key), or a record of the identifier alone
RawIssue(x) ==
    IF \E r \in Stored : x = r.id \/ ("key" \in DOMAIN r /\ x = r.key)
    THEN CHOOSE r \in Stored : x = r.id \/ ("key" \in DOMAIN r /\ x = r.key)
    ELSE [id |-> x]
RawIssues(c) == [k \in 1..Len(c) |-> RawIssue(c[k])]

\* What the bulk fetch endpoint answers for a chunk: every record in request
\* order, or all but the first (an issue the account cannot see is left out).
BulkModes == {"all", "drop"}
BulkAnswer(mode, c) ==
    IF mode = "drop" /\ c # <<>> THEN RawIssues(Tail(c)) ELSE RawIssues(c)

\* status and text of some responses that are neither 200 nor 429
FatalResponses == {<<204, "">>, <<500, "server error">>}
RetryAfters ==
    {Unset, Text(<<>>), Text(<<"2">>), Text(<<"x">>), Text(<<"-", "1">>)}

FIELDS == <<"summary", "assignee", "reporter", "priority", "status", "resolution",
            "created", "updated", "duedate">>

SEARCH_URL == "/rest/api/3/search/jql"
BULK_URL == "/rest/api/3/issue/bulkfetch"

\* A request, the status of its response (0: none, the request timed out), the
\* text of an error response and the JSON body of a 200 response
Sent(req, status, text, body) ==
    [req |-> req, status |-> status, text |-> text, body |-> body]
NoBody == [issues |-> <<>>, nextPageToken |-> None]

RECURSIVE Count429(_)
Count429(l) ==
    IF l = <<>> THEN 0
    ELSE Count429(Tail(l)) + (IF Head(l).status = 429 THEN 1 ELSE 0)

-----------------------------------------------------------------------------
(* _sleep_retry_after *)

RetryWait(h) ==
    IF Truthy(h) THEN (IF IntParses(h.text) THEN IntValue(h.text) ELSE RETRY_429_SECONDS)
    ELSE RETRY_429_SECONDS

\* time.sleep(wait) raises ValueError for a negative wait
SleepRaises(h) == RetryWait(h) < 0

Abort(e) ==
    /\ pc' = "aborted"
    /\ error' = e
    /\ exit_status' = 1

\* the 429 branch of either loop: sleep, then the loop goes round again
SleepRetryAfter(h, at) ==
    IF SleepRaises(h)
    THEN /\ Abort(Raised("ValueError", at, 0, "sleep length must be non-negative"))
         /\ UNCHANGED sleeps
    ELSE /\ sleeps' = Append(sleeps, RetryWait(h))
         /\ UNCHANGED <<pc, error, exit_status>>

-----------------------------------------------------------------------------
(* search_issue_ids_by_jql *)

SearchPayload ==
    [url |-> SEARCH_URL, jql |-> active_jql, maxResults |-> MAX_RESULTS,
     nextPageToken |-> IF Tru(next_token) THEN next_token ELSE None,
     issueIdsOrKeys |-> <<>>, fields |-> <<>>, timeout |-> REQUEST_TIMEOUT]

\* the identifiers the for loop appends, in response order
IdsOf(its) == [k \in 1..Len(its) |-> Or(its[k].id, its[k].key)]

\* Mutant of EnterBulk: fetch_all_issues without its "if not ids" test
EnterBulk_Always(l) ==
    /\ i' = 0
    /\ out' = <<>>
    /\ pc' = "bulk"
    /\ UNCHANGED issues

\* bulk_fetch_issues(ids, fields) is entered, or fetch_all_issues returns []
EnterBulk(l) ==
    IF l = <<>>
    THEN /\ issues' = <<>>
         /\ pc' = "fetched"
         /\ UNCHANGED <<i, out>>
    ELSE /\ i' = 0
         /\ out' = <<>>
         /\ pc' = "bulk"
         /\ UNCHANGED issues

\* Mutant of Search429: after a 429 the search is given up and the identifiers
\* collected so far are fetched
Search429_GiveUp(h) ==
    /\ pc = "search"
    /\ Count429(log) < Max429
    /\ log' = Append(log, Sent(SearchPayload, 429, "", NoBody))
    /\ EnterBulk(ids)
    /\ UNCHANGED <<srcVars, script, served, ids, next_token, sleeps, error, exit_status,
                   sinkVars>>

Search429(h) ==
    /\ pc = "search"
    /\ Count429(log) < Max429
    /\ log' = Append(log, Sent(SearchPayload, 429, "", NoBody))
    /\ SleepRetryAfter(h, "search")
    /\ UNCHANGED <<srcVars, script, served, ids, next_token, i, out, issues, sinkVars>>

SearchFatal(status, text) ==
    /\ pc = "search"
    /\ log' = Append(log, Sent(SearchPayload, status, text, NoBody))
    /\ Abort(Raised("RuntimeError", "search", status, text))
    /\ UNCHANGED <<srcVars, script, served, ids, next_token, i, out, issues, sleeps,
                   sinkVars>>

\* Mutant of SearchTimeout: a timeout handled like a 429 (sleep, then retry)
SearchTimeout_Retry ==
    /\ pc = "search"
    /\ log' = Append(log, Sent(SearchPayload, 0, "", NoBody))
    /\ sleeps' = Append(sleeps, RETRY_429_SECONDS)
    /\ UNCHANGED <<pc, error, exit_status, srcVars, script, served, ids, next_token,
                   i, out, issues, sinkVars>>

SearchTimeout ==
    /\ pc = "search"
    /\ log' = Append(log, Sent(SearchPayload, 0, "", NoBody))
    /\ Abort(Raised("Timeout", "search", 0, ""))
    /\ UNCHANGED <<srcVars, script, served, ids, next_token, i, out, issues, sleeps,
                   sinkVars>>

\* Mutant of Search200: the loop ends only on a missing cursor, not on an
\* empty page
Search200_TokenOnly ==
    /\ pc = "search"
    /\ LET data == ServerPage(served + 1)
           ids2 == ids \o IdsOf(data.issues)
       IN /\ log' = Append(log, Sent(SearchPayload, 200, "", data))
          /\ served' = served + 1
          /\ ids' = ids2
          /\ next_token' = data.nextPageToken
          /\ IF ~Tru(data.nextPageToken)
             THEN EnterBulk(ids2)
             ELSE /\ pc' = "search"
                  /\ UNCHANGED <<i, out, issues>>
    /\ UNCHANGED <<srcVars, script, sleeps, error, exit_status, sinkVars>>

Search200 ==
    /\ pc = "search"
    /\ LET data == ServerPage(served + 1)
           ids2 == ids \o IdsOf(data.issues)
       IN /\ log' = Append(log, Sent(SearchPayload, 200, "", data))
          /\ served' = served + 1
          /\ ids' = ids2
          /\ next_token' = data.nextPageToken
          /\ IF ~Tru(data.nextPageToken) \/ data.issues = <<>>
             THEN EnterBulk(ids2)
             ELSE /\ pc' = "search"
                  /\ UNCHANGED <<i, out, issues>>
    /\ UNCHANGED <<srcVars, script, sleeps, error, exit_status, sinkVars>>

-----------------------------------------------------------------------------
(* bulk_fetch_issues *)

\* Mutant of Chunk: the slice ends one element early
Chunk_Short(l, k) == SubSeq(l, k + 1, Min(k + BULK_FETCH_CHUNK - 1, Len(l)))

Chunk(l, k) == SubSeq(l, k + 1, Min(k + BULK_FETCH_CHUNK, Len(l)))

BulkPayload ==
    [url |-> BULK_URL, jql |-> <<>>, maxResults |-> 0, nextPageToken |-> None,
     issueIdsOrKeys |-> Chunk(ids, i), fields |-> FIELDS, timeout |-> REQUEST_TIMEOUT]

Bulk429(h) ==
    /\ pc = "bulk"
    /\ Count429(log) < Max429
    /\ log' = Append(log, Sent(BulkPayload, 429, "", NoBody))
    /\ SleepRetryAfter(h, "bulk")
    /\ UNCHANGED <<srcVars, script, served, ids, next_token, i, out, issues, sinkVars>>

\* Mutant of BulkFatal: the error status ends the loop and the records fetched
\* so far are returned
BulkFatal_Partial(status, text) ==
    /\ pc = "bulk"
    /\ log' = Append(log, Sent(BulkPayload, status, text, NoBody))
    /\ pc' = "fetched"
    /\ issues' = out
    /\ UNCHANGED <<error, exit_status, srcVars, script, served, ids, next_token, i,
                   out, sleeps, sinkVars>>

BulkFatal(status, text) ==
    /\ pc = "bulk"
    /\ log' = Append(log, Sent(BulkPayload, status, text, NoBody))
    /\ Abort(Raised("RuntimeError", "bulk", status, text))
    /\ UNCHANGED <<srcVars, script, served, ids, next_token, i, out, issues, sleeps,
                   sinkVars>>

BulkTimeout ==
    /\ pc = "bulk"
    /\ log' = Append(log, Sent(BulkPayload, 0, "", NoBody))
    /\ Abort(Raised("Timeout", "bulk", 0, ""))
    /\ UNCHANGED <<srcVars, script, served, ids, next_token, i, out, issues, sleeps,
                   sinkVars>>

\* Mutant of Bulk200: a record that an earlier chunk returned is not kept again
Bulk200_Dedup(mode) ==
    /\ pc = "bulk"
    /\ LET data == [issues |-> BulkAnswer(mode, Chunk(ids, i)), nextPageToken |-> None]
           out2 == out \o SelectSeq(data.issues,
                                    LAMBDA r : \A k \in 1..Len(out) : out[k] # r)
       IN /\ log' = Append(log, Sent(BulkPayload, 200, "", data))
          /\ out' = out2
          /\ i' = i + BULK_FETCH_CHUNK
          /\ IF i + BULK_FETCH_CHUNK < Len(ids)
             THEN /\ pc' = "bulk"
                  /\ UNCHANGED issues
             ELSE /\ pc' = "fetched"
                  /\ issues' = out2
    /\ UNCHANGED <<srcVars, script, served, ids, next_token, sleeps, error,
                   exit_status, sinkVars>>

Bulk200(mode) ==
    /\ pc = "bulk"
    /\ LET data == [issues |-> BulkAnswer(mode, Chunk(ids, i)), nextPageToken |-> None]
           out2 == out \o data.issues
       IN /\ log' = Append(log, Sent(BulkPayload, 200, "", data))
          /\ out' = out2
          /\ i' = i + BULK_FETCH_CHUNK
          /\ IF i + BULK_FETCH_CHUNK < Len(ids)
             THEN /\ pc' = "bulk"
                  /\ UNCHANGED issues
             ELSE /\ pc' = "fetched"
                  /\ issues' = out2
    /\ UNCHANGED <<srcVars, script, served, ids, next_token, sleeps, error,
                   exit_status, sinkVars>>

-----------------------------------------------------------------------------
(* main: the environment and the source query *)

EnvWith(jql, fid, fname) ==
    [JIRA_BASE_URL |-> "https://jira.example", JIRA_EMAIL |-> "me@example",
     JIRA_API_TOKEN |-> "secret",
     JIRA_JQL |-> jql, JIRA_FILTER_ID |-> fid, JIRA_FILTER_NAME |-> fname,
     GSHEET_ID |-> None, GOOGLE_SERVICE_ACCOUNT_FILE |-> None]

\* _require_env: the names of the required variables that are empty or unset
MissingEnv ==
    {k \in {"JIRA_BASE_URL", "JIRA_EMAIL", "JIRA_API_TOKEN"} : ~Tru(env[k])}

RequireEnv ==
    /\ pc = "start"
    /\ IF MissingEnv # {}
       THEN Abort(Raised("RuntimeError", "require_env", 0, "Missing env vars"))
       ELSE /\ pc' = "resolve"
            /\ UNCHANGED <<error, exit_status>>
    /\ UNCHANGED <<srcVars, fetchVars, sinkVars>>

FILTER_URL == "/rest/api/3/filter/search"

\* find_filter_id_by_name(name) on the candidates the tracker returns: the first
\* candidate whose name is exactly the name, else the first candidate, else None
Exact(name, cands) == {k \in 1..Len(cands) : cands[k].name = name}
FirstOf(S) == CHOOSE k \in S : \A m \in S : k <= m
find_filter_id_by_name(name, cands) ==
    IF Exact(name, cands) # {} THEN Text(cands[FirstOf(Exact(name, cands))].id)
    ELSE IF cands # <<>> THEN Text(cands[1].id)
    ELSE Unset

FilterPayload(name) ==
    [url |-> FILTER_URL, jql |-> <<>>, maxResults |-> 0, nextPageToken |-> name,
     issueIdsOrKeys |-> <<>>, fields |-> <<>>, timeout |-> REQUEST_TIMEOUT]

\* JIRA_JQL and JIRA_JQL.strip()
JqlGiven == Truthy(env.JIRA_JQL) /\ Strip(env.JIRA_JQL.text) # <<>>

\* f"filter={filter_id}"
FilterJql(idtext) == <<"f", "i", "l", "t", "e", "r", "=">> \o idtext

ConfigError(text) == Abort(Raised("RuntimeError", "resolve", 0, text))

Resolved(jql) ==
    /\ active_jql' = jql
    /\ pc' = "search"
    /\ UNCHANGED <<error, exit_status>>

\* Mutant of ResolveSource: JIRA_FILTER_ID is looked at before JIRA_JQL
ResolveSource_IdFirst ==
    /\ pc = "resolve"
    /\ IF Truthy(env.JIRA_FILTER_ID)
       THEN IF IntParses(env.JIRA_FILTER_ID.text)
            THEN Resolved(FilterJql(IntStr(IntValue(env.JIRA_FILTER_ID.text))))
            ELSE /\ ConfigError("JIRA_FILTER_ID must be a number")
                 /\ UNCHANGED active_jql
       ELSE IF JqlGiven
       THEN Resolved(Strip(env.JIRA_JQL.text))
       ELSE /\ ConfigError("Provide JIRA_JQL or JIRA_FILTER_ID or JIRA_FILTER_NAME in .env")
            /\ UNCHANGED active_jql
    /\ UNCHANGED <<env, filters, script, served, ids, next_token, i, out, issues,
                   log, sleeps, sinkVars>>

\* Mutant of ResolveSource: more than one source given is a configuration error
ResolveSource_Ambiguous ==
    /\ pc = "resolve"
    /\ IF    (JqlGiven /\ (Truthy(env.JIRA_FILTER_ID) \/ Tru(env.JIRA_FILTER_NAME)))
          \/ (Truthy(env.JIRA_FILTER_ID) /\ Tru(env.JIRA_FILTER_NAME))
          \/ ~(JqlGiven \/ Truthy(env.JIRA_FILTER_ID) \/ Tru(env.JIRA_FILTER_NAME))
       THEN /\ ConfigError("Provide JIRA_JQL or JIRA_FILTER_ID or JIRA_FILTER_NAME in .env")
            /\ UNCHANGED active_jql
       ELSE IF JqlGiven
       THEN Resolved(Strip(env.JIRA_JQL.text))
       ELSE IF Truthy(env.JIRA_FILTER_ID) /\ IntParses(env.JIRA_FILTER_ID.text)
       THEN Resolved(FilterJql(IntStr(IntValue(env.JIRA_FILTER_ID.text))))
       ELSE IF Tru(env.JIRA_FILTER_NAME) /\ filters # <<>>
       THEN Resolved(FilterJql(find_filter_id_by_name(env.JIRA_FILTER_NAME, filters).text))
       ELSE /\ ConfigError("not resolved")
            /\ UNCHANGED active_jql
    /\ UNCHANGED <<env, filters, script, served, ids, next_token, i, out, issues,
                   log, sleeps, sinkVars>>

ResolveSource ==
    /\ pc = "resolve"
    /\ IF JqlGiven
       THEN /\ Resolved(Strip(env.JIRA_JQL.text))
            /\ UNCHANGED log
       ELSE IF Truthy(env.JIRA_FILTER_ID)
       THEN /\ IF IntParses(env.JIRA_FILTER_ID.text)
               THEN Resolved(FilterJql(IntStr(IntValue(env.JIRA_FILTER_ID.text))))
               ELSE /\ ConfigError("JIRA_FILTER_ID must be a number")
                    /\ UNCHANGED active_jql
            /\ UNCHANGED log
       ELSE IF Tru(env.JIRA_FILTER_NAME)
       THEN LET found == find_filter_id_by_name(env.JIRA_FILTER_NAME, filters)
            IN /\ log' = Append(log, Sent(FilterPayload(env.JIRA_FILTER_NAME), 200, "",
                                          NoBody))
               /\ IF found = Unset
                  THEN /\ ConfigError("Filter not found")
                       /\ UNCHANGED active_jql
                  ELSE Resolved(FilterJql(found.text))
       ELSE /\ ConfigError("Provide JIRA_JQL or JIRA_FILTER_ID or JIRA_FILTER_NAME in .env")
            /\ UNCHANGED <<active_jql, log>>
    /\ UNCHANGED <<env, filters, script, served, ids, next_token, i, out, issues,
                   sleeps, sinkVars>>

FilterAnswers ==
    {<<>>,
     <<[id |-> <<"5">>, name |-> "mine too"]>>,
     <<[id |-> <<"5">>, name |-> "mine too"], [id |-> <<"8">>, name |-> "Mine"]>>}
EnvValues ==
    {[EnvWith(j, f, n) EXCEPT !.JIRA_API_TOKEN = t] :
        j \in {Unset, Text(<<>>), Text(<<" ">>), Text(<<"p">>), Text(<<" ", "p", " ">>)},
        f \in {Unset, Text(<<>>), Text(<<"1", "2">>), Text(<<"0", "7">>), Text(<<"x">>)},
        n \in {None, "", "Mine"},
        t \in {None, "", "secret"}}

-----------------------------------------------------------------------------
(* fetch_all_issues(jql, fields), called with a resolved query *)

NotStarted ==
    /\ served = 0 /\ ids = <<>> /\ next_token = None /\ i = 0 /\ out = <<>>
    /\ issues = <<>> /\ log = <<>> /\ sleeps = <<>> /\ error = NoError
    /\ exit_status = 0

NoSheet == [rows |-> 0, cols |-> 0, values |-> <<>>]
NoFile == [sheet |-> "", header |-> <<>>, rows |-> <<>>]

NoSink ==
    /\ df = <<>> /\ sheet = NoSheet /\ sheet0 = NoSheet
    /\ row_i = 0 /\ ops = <<>> /\ caught = NoError /\ pushes = 0
    /\ first_push = <<>> /\ excel = NoFile

InitFetch ==
    /\ pc = "search"
    /\ env = EnvWith(Text(<<"p">>), Unset, None)
    /\ filters = <<>>
    /\ active_jql = <<"p">>
    /\ script \in ScriptsUpTo(MaxPages)
    /\ NotStarted
    /\ NoSink

NextFetch ==
    \/ \E h \in RetryAfters : Search429(h)
    \/ \E r \in FatalResponses : SearchFatal(r[1], r[2])
    \/ SearchTimeout
    \/ Search200
    \/ \E h \in RetryAfters : Bulk429(h)
    \/ \E r \in FatalResponses : BulkFatal(r[1], r[2])
    \/ BulkTimeout
    \/ \E m \in BulkModes : Bulk200(m)

SpecFetch == InitFetch /\ [][NextFetch]_vars

-----------------------------------------------------------------------------
(* The table *)

COLUMNS == <<"key", "work", "assignee", "reporter", "priority", "status",
             "resolution", "created", "updated", "due_date">>

\* A datetime or a date; the null one (None, NaT) has year 0
DateTime(Y, Mo, D, h, mi) == [Y |-> Y, Mo |-> Mo, D |-> D, h |-> h, mi |-> mi]
NaT == DateTime(0, 0, 0, 0, 0)
Date(Y, Mo, D) == [Y |-> Y, Mo |-> Mo, D |-> D]
NoDate == Date(0, 0, 0)
IsNull(t) == t.Y = 0

T1 == DateTime(2025, 5, 27, 11, 56)
T2 == DateTime(2025, 9, 8, 14, 55)

RowFull ==
    [key |-> "PRJ-1", work |-> "Fix login", assignee |-> "Ann", reporter |-> "Bob",
     priority |-> "High", status |-> "Done", resolution |-> "Done",
     created |-> T2, updated |-> T2, due_date |-> Date(2025, 9, 30)]
RowSparse ==
    [key |-> "PRJ-2", work |-> "Crash", assignee |-> None, reporter |-> "Bob",
     priority |-> None, status |-> "Open", resolution |-> "Unresolved",
     created |-> T1, updated |-> T2, due_date |-> NoDate]
RowNoDates ==
    [key |-> "PRJ-3", work |-> None, assignee |-> None, reporter |-> None,
     priority |-> None, status |-> None, resolution |-> "Unresolved",
     created |-> NaT, updated |-> NaT, due_date |-> NoDate]
RowSamples == {RowFull, RowSparse, RowNoDates}

\* The order of datetimes; NaT is below all others
Stamp(t) == (((t.Y * 12 + t.Mo) * 31 + t.D) * 24 + t.h) * 60 + t.mi

\* df.sort_values(by=["created"], ascending=False) leaves the rows by created
\* descending, the rows without created last
SortedByCreated(t) ==
    \A a, b \in 1..Len(t) : a < b => Stamp(t[a].created) >= Stamp(t[b].created)
Tables(n) ==
    {t \in UNION {[1..m -> RowSamples] : m \in 0..n} : SortedByCreated(t)}

\* len(df.columns): pd.DataFrame([]) has no columns
NCols(t) == IF t = <<>> THEN 0 ELSE Len(COLUMNS)
Columns(t) == IF t = <<>> THEN <<>> ELSE COLUMNS

-----------------------------------------------------------------------------
(* dt_obj, d_obj: datetime.strptime *)

\* the number of digits of s from position p on, at most w
RECURSIVE DigitRun(_, _, _)
DigitRun(s, p, w) ==
    IF w > 0 /\ p <= Len(s) /\ IsDigit(s[p]) THEN 1 + DigitRun(s, p + 1, w - 1) ELSE 0

Num(s, p, n) == DigitsValue(SubSeq(s, p, p + n - 1))
At(s, p, C) == p <= Len(s) /\ s[p] \in C

DaysIn(y, m) ==
    IF m = 2 THEN (IF y % 4 = 0 /\ (y % 100 # 0 \/ y % 400 = 0) THEN 29 ELSE 28)
    ELSE IF m \in {4, 6, 9, 11} THEN 30 ELSE 31

\* %Y-%m-%d from position 1: the fields, whether they match, and the position
\* after them.  %Y takes four digits, %m and %d one or two.
YMD(s) ==
    LET nY == DigitRun(s, 1, 4)
        pm == nY + 2
        nM == DigitRun(s, pm, 2)
        pd == pm + nM + 1
        nD == DigitRun(s, pd, 2)
        Y == Num(s, 1, nY)
        Mo == Num(s, pm, nM)
        D == Num(s, pd, nD)
    IN [ok |-> /\ nY = 4 /\ At(s, 5, {"-"}) /\ nM >= 1 /\ At(s, pm + nM, {"-"}) /\ nD >= 1
               /\ Y >= 1 /\ Mo \in 1..12 /\ D >= 1 /\ D <= DaysIn(Y, Mo),
        Y |-> Y, Mo |-> Mo, D |-> D, end |-> pd + nD]

\* %H:%M:%S.%f from position p
HMSF(s, p) ==
    LET nH == DigitRun(s, p, 2)
        pm == p + nH + 1
        nM == DigitRun(s, pm, 2)
        ps == pm + nM + 1
        nS == DigitRun(s, ps, 2)
        pf == ps + nS + 1
        nF == DigitRun(s, pf, 6)
    IN [ok |-> /\ nH >= 1 /\ At(s, p + nH, {":"}) /\ nM >= 1 /\ At(s, pm + nM, {":"})
               /\ nS >= 1 /\ At(s, ps + nS, {"."}) /\ nF >= 1
               /\ Num(s, p, nH) <= 23 /\ Num(s, pm, nM) <= 59 /\ Num(s, ps, nS) <= 59,
        h |-> Num(s, p, nH), mi |-> Num(s, pm, nM), end |-> pf + nF]

\* %z on the rest z of the text: Z, or a sign, hours, an optional colon and
\* minutes, optionally followed by seconds and a fraction
SecsOk(r) ==
    r = <<>> \/
    LET q == IF r[1] = ":" THEN 2 ELSE 1
        f == SubSeq(r, q + 2, Len(r))
    IN /\ Len(r) >= q + 1 /\ r[q] \in {"0", "1", "2", "3", "4", "5"} /\ IsDigit(r[q + 1])
       /\ \/ f = <<>>
          \/ f[1] = "." /\ Len(f) \in 2..7 /\ \A k \in 2..Len(f) : IsDigit(f[k])
TzOk(z) ==
    \/ z = <<"Z">>
    \/ /\ Len(z) >= 5 /\ z[1] \in {"+", "-"} /\ IsDigit(z[2]) /\ IsDigit(z[3])
       /\ Num(z, 2, 2) <= 23
       /\ LET m == IF z[4] = ":" THEN 5 ELSE 4
          IN /\ Len(z) >= m + 1 /\ z[m] \in {"0", "1", "2", "3", "4", "5"}
             /\ IsDigit(z[m + 1]) /\ SecsOk(SubSeq(z, m + 2, Len(z)))

\* not dt_str
Blank(v) == v.t = "null" \/ v.s = <<>>

\* dt_obj(dt_str): the offset is parsed and dropped, the wall-clock fields are
\* kept.  Seconds and the fraction are not kept here: no two texts of the model
\* differ in them alone.
dt_obj(v) ==
    IF Blank(v) THEN NaT
    ELSE DateTime(YMD(v.s).Y, YMD(v.s).Mo, YMD(v.s).D,
                  HMSF(v.s, YMD(v.s).end + 1).h, HMSF(v.s, YMD(v.s).end + 1).mi)
\* strptime(dt_str, "%Y-%m-%dT%H:%M:%S.%f%z") raises ValueError unless the format
\* matches the whole text
dt_obj_raises(v) ==
    /\ ~Blank(v)
    /\ ~ /\ YMD(v.s).ok
         /\ At(v.s, YMD(v.s).end, {"T", "t"})
         /\ HMSF(v.s, YMD(v.s).end + 1).ok
         /\ TzOk(SubSeq(v.s, HMSF(v.s, YMD(v.s).end + 1).end, Len(v.s)))

d_obj(v) == IF Blank(v) THEN NoDate ELSE Date(YMD(v.s).Y, YMD(v.s).Mo, YMD(v.s).D)
\* strptime(d_str, "%Y-%m-%d")
d_obj_raises(v) == ~Blank(v) /\ ~(YMD(v.s).ok /\ YMD(v.s).end = Len(v.s) + 1)

-----------------------------------------------------------------------------
(* flatten_issue *)

\* issue.get("fields", {})
FieldsOf(issue) ==
    IF "fields" \in DOMAIN issue THEN issue.fields ELSE Map([k \in {} |-> Null])

\* the last step of g(..., k) for a name or a text: the value, None when null
g(cur, k) == IF Get(cur, k).t = "str" THEN Get(cur, k).s ELSE None

resolution_name(fields) ==
    LET res_obj == Get(fields, "resolution")
    IN IF res_obj.t = "map" /\ Get(res_obj, "name").t = "str" /\ Get(res_obj, "name").s # ""
       THEN Get(res_obj, "name").s
       ELSE "Unresolved"

\* the exception flatten_issue(issue) raises, "none" when it returns
FlattenError(issue) ==
    LET fields == FieldsOf(issue)
    IN IF fields.t # "map" THEN "AttributeError"  \* fields.get on None, line 159
       ELSE IF \/ dt_obj_raises(Get(fields, "created"))
               \/ dt_obj_raises(Get(fields, "updated"))
               \/ d_obj_raises(Get(fields, "duedate"))
       THEN "ValueError"
       ELSE "none"

\* the row flatten_issue(issue) returns
flatten_issue(issue) ==
    LET fields == FieldsOf(issue)
    IN [key |-> IF "key" \in DOMAIN issue THEN issue.key ELSE None,
        work |-> g(fields, "summary"),
        assignee |-> g(Get(fields, "assignee"), "displayName"),
        reporter |-> g(Get(fields, "reporter"), "displayName"),
        priority |-> g(Get(fields, "priority"), "name"),
        status |-> g(Get(fields, "status"), "name"),
        resolution |-> resolution_name(fields),
        created |-> dt_obj(Get(fields, "created")),
        updated |-> dt_obj(Get(fields, "updated")),
        due_date |-> d_obj(Get(fields, "duedate"))]

-----------------------------------------------------------------------------
(* main: the table is built (lines 227-232) *)

Raising(l) == {k \in 1..Len(l) : FlattenError(l[k]) # "none"}

\* Mutant of Normalise: a record that cannot be normalised is left out and the
\* run goes on
Normalise_SkipBad ==
    /\ pc = "fetched"
    /\ LET good == SelectSeq(issues, LAMBDA x : FlattenError(x) = "none")
       IN df' = [k \in 1..Len(good) |-> flatten_issue(good[k])]
    /\ pc' = "sort"
    /\ UNCHANGED <<error, exit_status>>
    /\ UNCHANGED <<srcVars, fetchVars, sheet, sheet0, row_i, ops, caught, pushes,
                   first_push, excel>>

\* rows = [flatten_issue(i) for i in issues]; df = pd.DataFrame(rows)
Normalise ==
    /\ pc = "fetched"
    /\ IF Raising(issues) # {}
       THEN /\ Abort(Raised(FlattenError(issues[FirstOf(Raising(issues))]),
                            "normalise", 0, ""))
            /\ UNCHANGED df
       ELSE /\ df' = [k \in 1..Len(issues) |-> flatten_issue(issues[k])]
            /\ pc' = "sort"
            /\ UNCHANGED <<error, exit_status>>
    /\ UNCHANGED <<srcVars, fetchVars, sheet, sheet0, row_i, ops, caught, pushes,
                   first_push, excel>>

\* nargsort(items, ascending=False, na_position="last"): the rows whose created
\* is not null, argsorted, then the rows whose created is null in their order
HasCreated(row) == ~IsNull(row.created)
NoCreated(row) == IsNull(row.created)

\* argsort with the default kind, quicksort: descending, and the order of equal
\* values is not fixed
Argsorts(t) ==
    {p \in [1..Len(t) -> 1..Len(t)] :
        /\ \A a, b \in DOMAIN p : a # b => p[a] # p[b]
        /\ \A a, b \in DOMAIN p : a < b => Stamp(t[p[a]].created) >= Stamp(t[p[b]].created)}
Argsorted(t) == {[k \in 1..Len(t) |-> t[p[k]]] : p \in Argsorts(t)}

\* df.sort_values(by=["created"], ascending=False)
Sorted(t) == {s \o SelectSeq(t, NoCreated) : s \in Argsorted(SelectSeq(t, HasCreated))}

\* Mutant of Sort: na_position="first"
Sort_NullsFirst ==
    /\ pc = "sort"
    /\ IF df # <<>>
       THEN df' \in {SelectSeq(df, NoCreated) \o s : s \in Argsorted(SelectSeq(df, HasCreated))}
       ELSE UNCHANGED df
    /\ pc' = "push"
    /\ UNCHANGED <<srcVars, fetchVars, error, exit_status, sheet, sheet0, row_i, ops,
                   caught, pushes, first_push, excel>>

Sort ==
    /\ pc = "sort"
    /\ IF df # <<>> THEN df' \in Sorted(df) ELSE UNCHANGED df
    /\ pc' = "push"
    /\ UNCHANGED <<srcVars, fetchVars, error, exit_status, sheet, sheet0, row_i, ops,
                   caught, pushes, first_push, excel>>

\* main at line 227, with the records fetch_all_issues returned
InitTable ==
    /\ pc = "fetched"
    /\ env = EnvWith(Text(<<"p">>), Unset, None)
    /\ filters = <<>>
    /\ active_jql = <<"p">>
    /\ script = <<>>
    /\ served = 0 /\ ids = <<>> /\ next_token = None /\ i = 0 /\ out = <<>>
    /\ issues \in UNION {[1..m -> Stored] : m \in 0..MaxIssues}
    /\ log = <<>> /\ sleeps = <<>> /\ error = NoError /\ exit_status = 0
    /\ NoSink

NextTable ==
    \/ Normalise
    \/ Sort

SpecTable == InitTable /\ [][NextTable]_vars

-----------------------------------------------------------------------------
(* push_to_gsheet: serialisation *)

MonthAbbr == <<"Jan", "Feb", "Mar", "Apr", "May", "Jun", "Jul", "Aug", "Sep",
               "Oct", "Nov", "Dec">>
Pad2(n) == IF n < 10 THEN "0" \o ToString(n) ELSE ToString(n)

\* strftime('%b %d, %Y'), strftime('%b %d, %Y, %I:%M %p')
FormatDate(d) == MonthAbbr[d.Mo] \o " " \o Pad2(d.D) \o ", " \o ToString(d.Y)
FormatDateTime(t) ==
    FormatDate(t) \o ", " \o Pad2(IF t.h % 12 = 0 THEN 12 ELSE t.h % 12) \o ":"
                  \o Pad2(t.mi) \o " " \o (IF t.h < 12 THEN "AM" ELSE "PM")

\* A column of created or updated values is datetime64 when some value is not
\* null; a column of None alone has dtype object, and its .dt raises
DtRaises(t, col) == t # <<>> /\ \A r \in 1..Len(t) : IsNull(t[r][col])
SerialiseRaises(t) == DtRaises(t, "created") \/ DtRaises(t, "updated")

\* One cell of df_copy.fillna(''), then str(value): .dt.strftime leaves NaT null,
\* which fillna makes ''; astype(str) of an object column (the string columns,
\* pandas 1.x and 2.x) makes None the text 'None', which is how None is written
\* here
Cell(row, col) ==
    IF col \in {"created", "updated"}
    THEN (IF IsNull(row[col]) THEN "" ELSE FormatDateTime(row[col]))
    ELSE IF col = "due_date"
    THEN (IF IsNull(row[col]) THEN "" ELSE FormatDate(row[col]))
    ELSE row[col]
SerialiseRow(row) == [c \in 1..Len(COLUMNS) |-> Cell(row, COLUMNS[c])]

-----------------------------------------------------------------------------
(* The worksheet *)

Grid(r, c, fill) == [x \in 1..r |-> [y \in 1..c |-> fill]]

\* ws.resize(rows, cols): cells that remain keep their value, new cells are empty
Resized(sh, r, c) ==
    [rows |-> r, cols |-> c,
     values |-> [x \in 1..r |-> [y \in 1..c |->
                    IF x <= sh.rows /\ y <= sh.cols THEN sh.values[x][y] ELSE ""]]]

\* ws.update(values=data, range_name=...) with the range starting at column A
\* of row start
Updated(sh, start, data) ==
    [sh EXCEPT !.values =
        [x \in 1..sh.rows |-> [y \in 1..sh.cols |->
            IF x >= start /\ x < start + Len(data) /\ y <= Len(data[x - start + 1])
            THEN data[x - start + 1][y]
            ELSE sh.values[x][y]]]]

-----------------------------------------------------------------------------
(* push_to_gsheet *)

CHUNK_SIZE == 1000

Done(op) == ops' = Append(ops, op)

\* the guard on GSHEET_ID and GOOGLE_SERVICE_ACCOUNT_FILE
PushEnter ==
    /\ pc = "push"
    /\ pushes' = pushes + 1
    /\ ops' = <<>>
    /\ caught' = NoError
    /\ row_i' = 0
    /\ IF ~Tru(env.GSHEET_ID) \/ ~Tru(env.GOOGLE_SERVICE_ACCOUNT_FILE)
       THEN pc' = "excel"
       ELSE pc' = "authorize"
    /\ UNCHANGED <<srcVars, fetchVars, error, exit_status, df, sheet, sheet0,
                   first_push, excel>>

Authorize ==
    /\ pc = "authorize"
    /\ Done("authorize")
    /\ pc' = "open_by_key"
    /\ UNCHANGED <<srcVars, fetchVars, error, exit_status, df, sheet, sheet0, row_i,
                   caught, pushes, first_push, excel>>

OpenByKey ==
    /\ pc = "open_by_key"
    /\ Done("open_by_key")
    /\ pc' = "get_worksheet"
    /\ UNCHANGED <<srcVars, fetchVars, error, exit_status, df, sheet, sheet0, row_i,
                   caught, pushes, first_push, excel>>

GetWorksheet ==
    /\ pc = "get_worksheet"
    /\ Done("get_worksheet")
    /\ pc' = "clear"
    /\ UNCHANGED <<srcVars, fetchVars, error, exit_status, df, sheet, sheet0, row_i,
                   caught, pushes, first_push, excel>>

\* Mutant of Clear: the worksheet is not cleared
Clear_Keep ==
    /\ pc = "clear"
    /\ Done("clear")
    /\ pc' = "resize"
    /\ UNCHANGED <<srcVars, fetchVars, error, exit_status, df, sheet, sheet0, row_i,
                   caught, pushes, first_push, excel>>

Clear ==
    /\ pc = "clear"
    /\ sheet' = [sheet EXCEPT !.values = Grid(sheet.rows, sheet.cols, "")]
    /\ Done("clear")
    /\ pc' = "resize"
    /\ UNCHANGED <<srcVars, fetchVars, error, exit_status, df, sheet0, row_i,
                   caught, pushes, first_push, excel>>

required_rows == Len(df) + 1
required_cols == NCols(df)
ResizeNeeded == required_rows > sheet.rows \/ required_cols > sheet.cols

\* Mutant of Resize: the worksheet is resized to the size of the table
Resize_Exact ==
    /\ pc = "resize"
    /\ IF ResizeNeeded
       THEN /\ sheet' = Resized(sheet, required_rows, required_cols)
            /\ Done("resize")
       ELSE UNCHANGED <<sheet, ops>>
    /\ pc' = "serialise"
    /\ UNCHANGED <<srcVars, fetchVars, error, exit_status, df, sheet0, row_i,
                   caught, pushes, first_push, excel>>

Resize ==
    /\ pc = "resize"
    /\ IF ResizeNeeded
       THEN /\ sheet' = Resized(sheet, Max(required_rows, sheet.rows),
                                Max(required_cols, sheet.cols))
            /\ Done("resize")
       ELSE UNCHANGED <<sheet, ops>>
    /\ pc' = "serialise"
    /\ UNCHANGED <<srcVars, fetchVars, error, exit_status, df, sheet0, row_i,
                   caught, pushes, first_push, excel>>

\* the except clause: the exception is printed and push_to_gsheet returns
Caught(kind) ==
    /\ caught' = Raised(kind, pc, 0, "")
    /\ pc' = "excel"

Serialise ==
    /\ pc = "serialise"
    /\ IF SerialiseRaises(df)
       THEN Caught("AttributeError")
       ELSE /\ pc' = "header"
            /\ UNCHANGED caught
    /\ UNCHANGED <<srcVars, fetchVars, error, exit_status, df, sheet, sheet0, row_i,
                   ops, pushes, first_push, excel>>

WriteHeader ==
    /\ pc = "header"
    /\ sheet' = Updated(sheet, 1, <<Columns(df)>>)
    /\ Done("update A1")
    /\ row_i' = 0
    /\ pc' = IF Len(df) = 0 THEN "format" ELSE "data"
    /\ UNCHANGED <<srcVars, fetchVars, error, exit_status, df, sheet0, caught,
                   pushes, first_push, excel>>

SerialiseRows(t) == [k \in 1..Len(t) |-> SerialiseRow(t[k])]

\* chr(ord('A') + n - 1) for a table of n columns, n up to 26
end_col_letter(n) ==
    <<"A", "B", "C", "D", "E", "F", "G", "H", "I", "J", "K", "L", "M", "N", "O", "P",
      "Q", "R", "S", "T", "U", "V", "W", "X", "Y", "Z">>[n]

\* f'A{start_row}:{end_col_letter}{end_row}'
range_name(start_row, end_row, n) ==
    "A" \o ToString(start_row) \o ":" \o end_col_letter(n) \o ToString(end_row)

\* Mutant of WriteChunk: every chunk is addressed from row 2
WriteChunk_Relative ==
    /\ pc = "data"
    /\ LET chunk == SubSeq(df, row_i + 1, Min(row_i + CHUNK_SIZE, Len(df)))
           data == SerialiseRows(chunk)
           start_row == 2
           end_row == start_row + Len(data) - 1
       IN /\ sheet' = Updated(sheet, start_row, data)
          /\ Done("update " \o range_name(start_row, end_row, NCols(df)))
    /\ row_i' = row_i + CHUNK_SIZE
    /\ pc' = IF row_i + CHUNK_SIZE < Len(df) THEN "data" ELSE "format"
    /\ UNCHANGED <<srcVars, fetchVars, error, exit_status, df, sheet0, caught,
                   pushes, first_push, excel>>

WriteChunk ==
    /\ pc = "data"
    /\ LET chunk == SubSeq(df, row_i + 1, Min(row_i + CHUNK_SIZE, Len(df)))
           data == SerialiseRows(chunk)
           start_row == row_i + 2
           end_row == start_row + Len(data) - 1
       IN /\ sheet' = Updated(sheet, start_row, data)
          /\ Done("update " \o range_name(start_row, end_row, NCols(df)))
    /\ row_i' = row_i + CHUNK_SIZE
    /\ pc' = IF row_i + CHUNK_SIZE < Len(df) THEN "data" ELSE "format"
    /\ UNCHANGED <<srcVars, fetchVars, error, exit_status, df, sheet0, caught,
                   pushes, first_push, excel>>

Format ==
    /\ pc = "format"
    /\ Done("format")
    /\ pc' = "freeze"
    /\ UNCHANGED <<srcVars, fetchVars, error, exit_status, df, sheet, sheet0, row_i,
                   caught, pushes, first_push, excel>>

Freeze ==
    /\ pc = "freeze"
    /\ Done("freeze")
    /\ first_push' = IF pushes = 1 THEN sheet.values ELSE first_push
    /\ pc' = "excel"
    /\ UNCHANGED <<srcVars, fetchVars, error, exit_status, df, sheet, sheet0, row_i,
                   caught, pushes, excel>>

\* the steps that call the remote service
RemoteSteps ==
    {"authorize", "open_by_key", "get_worksheet", "clear", "resize", "header",
     "data", "format", "freeze"}
RemoteStep == pc \in RemoteSteps /\ (pc = "resize" => ResizeNeeded)

\* Mutant of RemoteFails: the exception leaves push_to_gsheet
RemoteFails_Propagates ==
    /\ RemoteStep
    /\ Abort(Raised("RemoteSinkError", pc, 0, ""))
    /\ UNCHANGED <<srcVars, fetchVars, sinkVars>>

\* a remote call raises (authorisation, network, API error)
RemoteFails ==
    /\ RemoteStep
    /\ Caught("RemoteSinkError")
    /\ UNCHANGED <<srcVars, fetchVars, error, exit_status, df, sheet, sheet0, row_i,
                   ops, pushes, first_push, excel>>

-----------------------------------------------------------------------------
(* main, after push_to_gsheet: the local file *)

FileOf(t) == [sheet |-> "Issues", header |-> Columns(t), rows |-> t]

ExcelWrite ==
    /\ pc = "excel"
    /\ excel' = FileOf(df)
    /\ pc' = "done"
    /\ UNCHANGED <<srcVars, fetchVars, error, exit_status, df, sheet, sheet0, row_i,
                   ops, caught, pushes, first_push>>

\* the program is run once more and arrives at push_to_gsheet with the same table
RunAgain ==
    /\ pc = "done"
    /\ pushes < MaxRuns
    /\ ops' = <<>>
    /\ caught' = NoError
    /\ row_i' = 0
    /\ pc' = "push"
    /\ UNCHANGED <<srcVars, fetchVars, error, exit_status, df, sheet, sheet0,
                   pushes, first_push, excel>>

PriorSheets ==
    {[rows |-> r, cols |-> c, values |-> Grid(r, c, fill)] :
        r \in {1, MaxPriorRows}, c \in {1, MaxPriorCols}, fill \in {"", "old"}}

SheetEnvs ==
    {[EnvWith(Text(<<"p">>), Unset, None)
        EXCEPT !.GSHEET_ID = gsheet_id, !.GOOGLE_SERVICE_ACCOUNT_FILE = cred_file] :
        gsheet_id \in {None, "", "sheet-1"}, cred_file \in {None, "sa.json"}}

\* a sorted table that needs more than one chunk
LongTable == [k \in 1..(CHUNK_SIZE + 1) |-> IF k <= CHUNK_SIZE THEN RowFull ELSE RowSparse]

\* main at line 235, with a table as lines 227-232 leave it; the fetch that led
\* to the table is not followed here
InitSink ==
    /\ pc = "push"
    /\ filters = <<>>
    /\ active_jql = <<"p">>
    /\ script = <<>>
    /\ NotStarted
    /\ \/ /\ df \in Tables(MaxRows)
          /\ env \in SheetEnvs
          /\ sheet \in PriorSheets
       \/ /\ df = LongTable
          /\ env = [EnvWith(Text(<<"p">>), Unset, None)
                       EXCEPT !.GSHEET_ID = "sheet-1",
                              !.GOOGLE_SERVICE_ACCOUNT_FILE = "sa.json"]
          /\ sheet = [rows |-> 1, cols |-> 1, values |-> Grid(1, 1, "old")]
    /\ sheet0 = sheet
    /\ row_i = 0 /\ ops = <<>> /\ caught = NoError /\ pushes = 0
    /\ first_push = <<>> /\ excel = NoFile

NextSink ==
    \/ PushEnter
    \/ Authorize
    \/ OpenByKey
    \/ GetWorksheet
    \/ Clear
    \/ Resize
    \/ Serialise
    \/ WriteHeader
    \/ WriteChunk
    \/ Format
    \/ Freeze
    \/ RemoteFails
    \/ ExcelWrite
    \/ RunAgain

SpecSink == InitSink /\ [][NextSink]_vars

-----------------------------------------------------------------------------
(* main, from its start to the return of fetch_all_issues *)

ScriptsMain ==
    {<<[issues |-> <<>>, cursor |-> "none"]>>,
     <<[issues |-> <<ItemB, ItemA>>, cursor |-> "none"]>>}

Init ==
    /\ pc = "start"
    /\ env \in EnvValues
    /\ filters \in FilterAnswers
    /\ active_jql = <<>>
    /\ script \in ScriptsMain
    /\ NotStarted
    /\ NoSink

Next ==
    \/ RequireEnv
    \/ ResolveSource
    \/ NextFetch

Spec == Init /\ [][Next]_vars

-----------------------------------------------------------------------------
(* main, the whole run *)

\* the search endpoint: no issue; two issues; one issue twice; an issue whose
\* created text has the date alone; 101 issues of which one comes three times
ScriptsRun ==
    {<<[issues |-> <<>>, cursor |-> "none"]>>,
     <<[issues |-> <<ItemB, ItemA>>, cursor |-> "none"]>>,
     <<[issues |-> <<ItemA, ItemA>>, cursor |-> "none"]>>,
     <<[issues |-> <<ItemA, [id |-> IssueDateOnly.id, key |-> None]>>, cursor |-> "none"]>>,
     <<[issues |-> HalfPage \o HalfPage, cursor |-> "token"],
       [issues |-> <<ItemA>>, cursor |-> "none"]>>}

\* the file an earlier run left
OldFile == [sheet |-> "Issues", header |-> COLUMNS,
            rows |-> <<[RowNoDates EXCEPT !.key = "OLD-1"]>>]

InitRun ==
    /\ pc = "start"
    /\ env \in {[EnvWith(jql, Unset, None)
                    EXCEPT !.GSHEET_ID = gsheet_id,
                           !.GOOGLE_SERVICE_ACCOUNT_FILE = "sa.json"] :
                    jql \in {Unset, Text(<<"p">>)}, gsheet_id \in {None, "sheet-1"}}
    /\ filters = <<>>
    /\ active_jql = <<>>
    /\ script \in ScriptsRun
    /\ NotStarted
    /\ df = <<>>
    /\ sheet = [rows |-> MaxPriorRows, cols |-> MaxPriorCols,
                values |-> Grid(MaxPriorRows, MaxPriorCols, "old")]
    /\ sheet0 = sheet
    /\ row_i = 0 /\ ops = <<>> /\ caught = NoError /\ pushes = 0
    /\ first_push = <<>> /\ excel = OldFile

NextRun ==
    \/ Next
    \/ NextTable
    \/ PushEnter
    \/ Authorize
    \/ OpenByKey
    \/ GetWorksheet
    \/ Clear
    \/ Resize
    \/ Serialise
    \/ WriteHeader
    \/ WriteChunk
    \/ Format
    \/ Freeze
    \/ RemoteFails
    \/ ExcelWrite

SpecRun == InitRun /\ [][NextRun]_vars

-----------------------------------------------------------------------------
(* fetch_all_issues against a server that answers every request: each request
   ends with a response or with the timeout of REQUEST_TIMEOUT seconds, and
   each sleep ends, so the loops keep taking steps *)

InitLive ==
    /\ pc = "search"
    /\ env = EnvWith(Text(<<"p">>), Unset, None)
    /\ filters = <<>>
    /\ active_jql = <<"p">>
    /\ script \in ScriptsRun
    /\ NotStarted
    /\ NoSink

SpecLive == InitLive /\ [][NextFetch]_vars /\ WF_vars(NextFetch)

-----------------------------------------------------------------------------
(* Properties of the fetch *)

IsSearch(e) == e.req.url = SEARCH_URL
IsBulk(e) == e.req.url = BULK_URL
Is200(e) == e.status = 200
Is429(e) == e.status = 429
SearchLog == SelectSeq(log, IsSearch)
BulkLog == SelectSeq(log, IsBulk)
BulkOK == SelectSeq(BulkLog, Is200)

\* search_issue_ids_by_jql has returned
SearchReturned ==
    /\ served > 0
    /\ pc # "search"
    /\ ~(pc = "aborted" /\ error.at = "search")

ExpectedId(it) == IF it.id \notin {None, ""} THEN it.id ELSE it.key
RECURSIVE PagesIds(_, _)
PagesIds(s, n) ==
    IF n = 0 THEN <<>>
    ELSE PagesIds(s, n - 1) \o [k \in 1..Len(s[n].issues) |-> ExpectedId(s[n].issues[k])]
RECURSIVE TotalSize(_, _)
TotalSize(s, n) == IF n = 0 THEN 0 ELSE TotalSize(s, n - 1) + Len(s[n].issues)

\* every page but the last carries a cursor, the last carries none
CursorChain(s) == \A k \in 1..Len(s) : (s[k].cursor = "token") <=> (k < Len(s))
NonEmptyInterior(s) == \A k \in 1..(Len(s) - 1) : s[k].issues # <<>>
\* the first page that has no cursor or is empty
StopPage(s) ==
    CHOOSE k \in 1..Len(s) :
        /\ s[k].cursor # "token" \/ s[k].issues = <<>>
        /\ \A m \in 1..(k - 1) : s[m].cursor = "token" /\ s[m].issues # <<>>

\* C1 as stated: whenever the pages of the script all carry a cursor but the last,
\* discovery returns the identifiers of all N pages (K of them, in page order and
\* in response order) after exactly N successful requests.
C1_AllPagesReturned ==
    (SearchReturned /\ CursorChain(script)) =>
        /\ ids = PagesIds(script, Len(script))
        /\ Len(ids) = TotalSize(script, Len(script))
        /\ Len(SelectSeq(SearchLog, Is200)) = Len(script)

\* C1, amended: discovery stops at the first page that has no cursor or is empty
\* and returns the identifiers of the pages up to it, in page order and in
\* response order, after one successful request per page; these are all N pages
\* and all K identifiers when every page but the last is non-empty and carries a
\* cursor.
C1_Discovery ==
    /\ pc = "search" =>
        /\ served < StopPage(script)
        /\ ids = PagesIds(script, served)
    /\ SearchReturned =>
        /\ served = StopPage(script)
        /\ ids = PagesIds(script, served)
        /\ Len(SelectSeq(SearchLog, Is200)) = served
    /\ (SearchReturned /\ CursorChain(script) /\ NonEmptyInterior(script)) =>
        /\ served = Len(script)
        /\ ids = PagesIds(script, Len(script))
        /\ Len(ids) = TotalSize(script, Len(script))

C1_Witness ==
    /\ SearchReturned
    /\ Len(script) = 2
    /\ CursorChain(script)
    /\ script[1].issues = HalfPage
    /\ script[2].issues = FullPage
    /\ Len(ids) = 150
    /\ ids[1] = "PRJ-2"
    /\ ids[2] = "10001"

RECURSIVE JoinChunks(_)
JoinChunks(l) ==
    IF l = <<>> THEN <<>> ELSE Head(l).req.issueIdsOrKeys \o JoinChunks(Tail(l))
RECURSIVE JoinBodies(_)
JoinBodies(l) ==
    IF l = <<>> THEN <<>> ELSE Head(l).body.issues \o JoinBodies(Tail(l))

\* C2: a 429 never ends the run; the request that follows a 429 is the request
\* that got the 429; there is one sleep per 429; and the identifiers and records
\* returned are those of the 200 responses alone.
C2_RateLimit ==
    /\ pc = "aborted" => (log # <<>> /\ log[Len(log)].status # 429)
    /\ \A k \in 1..(Len(log) - 1) : log[k].status = 429 => log[k + 1].req = log[k].req
    /\ Len(sleeps) = Len(SelectSeq(log, Is429))
    /\ SearchReturned => ids = PagesIds(script, StopPage(script))
    /\ pc = "fetched" => (issues = JoinBodies(BulkOK) /\ JoinChunks(BulkOK) = ids)

\* C3: a response whose status is neither 200 nor 429 is the last request of the
\* run; the run is aborted by an error that carries that status and that body,
\* and fetch_all_issues returns nothing.
C3_FatalStatus ==
    \A k \in 1..Len(log) :
        log[k].status \notin {0, 200, 429} =>
            /\ k = Len(log)
            /\ pc = "aborted"
            /\ exit_status = 1
            /\ error = Raised("RuntimeError",
                              IF IsSearch(log[k]) THEN "search" ELSE "bulk",
                              log[k].status, log[k].text)
            /\ issues = <<>>

C3_Witness ==
    /\ pc = "aborted"
    /\ error.at = "bulk"
    /\ error.status = 500
    /\ error.text = "server error"
    /\ i = 100
    /\ out # <<>>

\* C4: a request that timed out is the last request of the run; the run is
\* aborted by the timeout, nothing is returned, and no sleep was performed for
\* it (there are never more sleeps than 429 responses).
C4_Timeout ==
    /\ Len(sleeps) <= Len(SelectSeq(log, Is429))
    /\ \A k \in 1..Len(log) :
        log[k].status = 0 =>
            /\ k = Len(log)
            /\ pc = "aborted"
            /\ exit_status = 1
            /\ error.kind = "Timeout"
            /\ issues = <<>>

C4_Witness ==
    /\ pc = "aborted"
    /\ error.kind = "Timeout"
    /\ log[Len(log)].status = 0
    /\ Len(log) >= 2
    /\ log[Len(log) - 1].status = 429

\* C5: when discovery returns no identifier, fetch_all_issues returns the empty
\* list without an error and without any bulk fetch request.
C5_NoIdsNoBulk ==
    (SearchReturned /\ ids = <<>>) =>
        /\ pc = "fetched"
        /\ issues = <<>>
        /\ BulkLog = <<>>
        /\ error = NoError
        /\ exit_status = 0

C5_Witness ==
    /\ SearchReturned
    /\ ids = <<>>
    /\ pc = "fetched"
    /\ Len(SearchLog) >= 1

CeilDiv(a, b) == (a + b - 1) \div b

\* C6: the chunks answered by a 200 are the consecutive slices of 100 of the
\* identifier list (the last one possibly shorter), ceil(K/100) of them when the
\* fetch returns; the result is the concatenation of their responses in chunk
\* order, K records when no response leaves a record out.
C6_Chunks ==
    LET K == Len(ids)
        n == Len(BulkOK)
        chunk(j) == BulkOK[j].req.issueIdsOrKeys
    IN /\ \A j \in 1..n :
            /\ chunk(j) = SubSeq(ids, 100 * (j - 1) + 1, Min(100 * j, K))
            /\ Len(chunk(j)) = 100 \/ (j = CeilDiv(K, 100) /\ Len(chunk(j)) = K - 100 * (j - 1))
            /\ Len(chunk(j)) >= 1
       /\ pc = "bulk" => (n = i \div 100 /\ n < CeilDiv(K, 100))
       /\ pc = "fetched" =>
            /\ n = CeilDiv(K, 100)
            /\ JoinChunks(BulkOK) = ids
            /\ issues = JoinBodies(BulkOK)
            /\ (\A j \in 1..n : Len(BulkOK[j].body.issues) = Len(chunk(j)))
                   => Len(issues) = K

C6_Witness ==
    /\ pc = "fetched"
    /\ Len(ids) = 150
    /\ Len(BulkOK) = 2
    /\ Len(BulkOK[1].req.issueIdsOrKeys) = 100
    /\ Len(BulkOK[2].req.issueIdsOrKeys) = 50
    /\ Len(issues) = 150

-----------------------------------------------------------------------------
(* Properties of the source resolution *)

\* main is past the resolution of the source
PastResolve == pc \notin {"start", "resolve"} /\ error.at # "require_env"
ResolveFailed == pc = "aborted" /\ error.at = "resolve"
ConfigurationError ==
    /\ ResolveFailed
    /\ error.kind = "RuntimeError"
    /\ exit_status = 1
    /\ SearchLog = <<>>
    /\ BulkLog = <<>>

NonBlank(v) == v.present /\ \E k \in 1..Len(v.text) : v.text[k] # " "
JqlSet == NonBlank(env.JIRA_JQL)
IdSet == env.JIRA_FILTER_ID.present /\ env.JIRA_FILTER_ID.text # <<>>
NameSet == env.JIRA_FILTER_NAME \notin {None, ""}
IdNumeric == \A k \in 1..Len(env.JIRA_FILTER_ID.text) : IsDigit(env.JIRA_FILTER_ID.text[k])

\* filter=<id> for the numeric value of JIRA_FILTER_ID
QueryOfId == FilterJql(IntStr(DigitsValue(env.JIRA_FILTER_ID.text)))
\* filter=<id> for the id the name lookup yields
LookupId ==
    IF \E k \in 1..Len(filters) : filters[k].name = env.JIRA_FILTER_NAME
    THEN LET k == CHOOSE k \in 1..Len(filters) :
                    /\ filters[k].name = env.JIRA_FILTER_NAME
                    /\ \A m \in 1..(k - 1) : filters[m].name # env.JIRA_FILTER_NAME
         IN filters[k].id
    ELSE filters[1].id
QueryOfName == FilterJql(LookupId)

\* the resolution by priority, but for the query a query string yields
ByPriority(jqlQuery) ==
    /\ JqlSet => (~ResolveFailed /\ active_jql = jqlQuery)
    /\ (~JqlSet /\ IdSet /\ IdNumeric) => (~ResolveFailed /\ active_jql = QueryOfId)
    /\ (~JqlSet /\ ~IdSet /\ NameSet /\ filters # <<>>) =>
            (~ResolveFailed /\ active_jql = QueryOfName)
    /\ (~JqlSet /\ IdSet /\ ~IdNumeric) => ConfigurationError
    /\ (~JqlSet /\ ~IdSet /\ NameSet /\ filters = <<>>) => ConfigurationError
    /\ (~JqlSet /\ ~IdSet /\ ~NameSet) => ConfigurationError
    /\ ResolveFailed => ConfigurationError

\* C7 as stated: a non-blank query string is itself the Query
C7_QueryStringAsGiven == PastResolve => ByPriority(env.JIRA_JQL.text)

\* C7, amended: the resolution follows the priority query string > filter id >
\* filter name; a non-blank query string yields the string without its leading
\* and trailing whitespace; failures are configuration errors raised before any
\* search request.
C7_Priority == PastResolve => ByPriority(Strip(env.JIRA_JQL.text))

C7_Witness ==
    /\ pc = "search"
    /\ env.JIRA_JQL = Text(<<" ", "p", " ">>)
    /\ IdSet
    /\ NameSet
    /\ active_jql = <<"p">>

SourcesSet ==
    (IF JqlSet THEN 1 ELSE 0) + (IF IdSet THEN 1 ELSE 0) + (IF NameSet THEN 1 ELSE 0)
\* the source that decides is valid
JqlDecides == JqlSet
IdDecides == ~JqlSet /\ IdSet
NameDecides == ~JqlSet /\ ~IdSet /\ NameSet
DecidingValid ==
    \/ JqlDecides
    \/ IdDecides /\ IdNumeric
    \/ NameDecides /\ filters # <<>>
OneQuery ==
    /\ ~ResolveFailed
    /\ \/ JqlDecides /\ active_jql = Strip(env.JIRA_JQL.text)
       \/ IdDecides /\ active_jql = QueryOfId
       \/ NameDecides /\ active_jql = QueryOfName

\* C8 as stated: one valid source resolves, zero or several sources fail
C8_SeveralSourcesFail ==
    PastResolve =>
        /\ (SourcesSet = 1 /\ DecidingValid) => OneQuery
        /\ SourcesSet # 1 => ConfigurationError

\* C8, amended: one valid source resolves to one Query and zero sources fail with
\* a configuration error; several sources do not fail for being several: the
\* one of highest priority decides alone, and the resolution fails exactly when
\* that one is invalid.
C8_Resolution ==
    PastResolve =>
        /\ (SourcesSet = 1 /\ DecidingValid) => OneQuery
        /\ SourcesSet = 0 => ConfigurationError
        /\ SourcesSet >= 2 =>
            /\ DecidingValid => OneQuery
            /\ ~DecidingValid => ConfigurationError

C8_Witness ==
    /\ pc = "search"
    /\ SourcesSet = 3
    /\ env.JIRA_FILTER_ID = Text(<<"x">>)
    /\ active_jql = <<"p">>

-----------------------------------------------------------------------------
(* Properties of the sinks *)

\* C9: an exception of any step of push_to_gsheet is caught there: the run goes
\* on to the local file, is never aborted by it, and ends with the file holding
\* the whole table and with exit status 0.
C9_RemoteFailureCaught ==
    /\ caught # NoError =>
        /\ pc \in {"excel", "done"}
        /\ error = NoError
        /\ exit_status = 0
    /\ error.at \notin RemoteSteps \cup {"push", "serialise"}
    /\ pc \in RemoteSteps \cup {"push", "serialise", "excel", "done"} =>
        /\ error = NoError
        /\ exit_status = 0
    /\ pc = "done" => excel = FileOf(df)

C9_Witness ==
    /\ pc = "done"
    /\ caught = Raised("RemoteSinkError", "open_by_key", 0, "")
    /\ Len(df) = 2
    /\ excel = FileOf(df)
    /\ exit_status = 0

\* push_to_gsheet ran to its end without an exception
PushCompleted ==
    /\ pc \in {"excel", "done"}
    /\ caught = NoError
    /\ ops # <<>>
    /\ ops[Len(ops)] = "freeze"

ExpectedCell(r, c) ==
    IF c > NCols(df) \/ r > Len(df) + 1 THEN ""
    ELSE IF r = 1 THEN COLUMNS[c]
    ELSE SerialiseRow(df[r - 1])[c]

\* C10: after a push without failure the worksheet holds the header row, then
\* the serialised rows of the table, and nothing else, whatever it held before;
\* a second push of the same table leaves what the first one left.
C10_FullOverwrite ==
    PushCompleted =>
        /\ sheet.rows >= Len(df) + 1
        /\ sheet.cols >= NCols(df)
        /\ \A r \in 1..sheet.rows, c \in 1..sheet.cols :
                sheet.values[r][c] = ExpectedCell(r, c)
        /\ (pushes >= 2 /\ first_push # <<>>) => sheet.values = first_push

C10_Witness ==
    /\ PushCompleted
    /\ pushes = 2
    /\ first_push = sheet.values
    /\ Len(df) = 2
    /\ sheet0.rows > Len(df) + 1
    /\ sheet0.cols > NCols(df)
    /\ sheet0.values[sheet0.rows][sheet0.cols] = "old"
    /\ sheet.values[1][1] = "key"
    /\ sheet.values[sheet.rows][sheet.cols] = ""

-----------------------------------------------------------------------------
(* Properties of the table *)

Created(t) == [k \in 1..Len(t) |-> t[k].created]
Before(a, b) == Stamp(a) < Stamp(b)

\* C12: in the table handed to the sinks the rows are ordered by created
\* descending, and every row without created comes after every row with one;
\* rows created at T1, T2 and never (T1 before T2) come out as T2, T1, null.
C12_SortedNullsLast ==
    pc = "push" =>
        /\ \A a, b \in 1..Len(df) : a < b =>
              /\ IsNull(df[a].created) => IsNull(df[b].created)
              /\ ~IsNull(df[b].created) => ~Before(df[a].created, df[b].created)
        /\ (Len(df) = 3 /\ {df[k].created : k \in 1..3} = {T1, T2, NaT})
              => Created(df) = <<T2, T1, NaT>>

\* The records came as null, T1, T2 and were sorted to T2, T1, null
C12_Witness ==
    /\ pc = "push"
    /\ issues = <<IssueNoDates, IssueSparse, IssueFull>>
    /\ Created(df) = <<T2, T1, NaT>>
    /\ df = <<RowFull, RowSparse, RowNoDates>>

\* The value of fields.resolution in the record: null when a segment is absent
ResolutionOf(issue) ==
    IF "fields" \in DOMAIN issue /\ issue.fields.t = "map"
       /\ "resolution" \in DOMAIN issue.fields.m
    THEN issue.fields.m.resolution
    ELSE Null
NamedResolution(issue) ==
    /\ ResolutionOf(issue).t = "map"
    /\ "name" \in DOMAIN ResolutionOf(issue).m
    /\ ResolutionOf(issue).m.name.t = "str"
    /\ ResolutionOf(issue).m.name.s # ""

\* The date texts of the record are well formed
WellFormedDates(issue) == FlattenError(issue) # "ValueError"
Normalised == pc \in {"sort", "aborted"}

\* C14: a raw issue whose resolution has a name yields a row with that name as
\* resolution, a raw issue whose resolution is absent or null yields a row with
\* resolution Unresolved; the resolution of a row is never null.
C14_ResolutionDefault ==
    (Normalised /\ \A k \in 1..Len(issues) : WellFormedDates(issues[k])) =>
        /\ pc = "sort"
        /\ Len(df) = Len(issues)
        /\ \A k \in 1..Len(issues) :
              /\ NamedResolution(issues[k]) =>
                    df[k].resolution = ResolutionOf(issues[k]).m.name.s
              /\ ~NamedResolution(issues[k]) => df[k].resolution = "Unresolved"
              /\ df[k].resolution # None

\* The value at the end of a lookup path in the record, null when a segment of
\* the path is absent or null
AtPath(issue, path) ==
    LET f == IF "fields" \in DOMAIN issue THEN issue.fields ELSE Null
        a == Get(f, path[1])
    IN IF Len(path) = 1 THEN a ELSE Get(a, path[2])
PATHS ==
    [work |-> <<"summary">>, assignee |-> <<"assignee", "displayName">>,
     reporter |-> <<"reporter", "displayName">>, priority |-> <<"priority", "name">>,
     status |-> <<"status", "name">>, created |-> <<"created">>,
     updated |-> <<"updated">>, due_date |-> <<"duedate">>]
NullIn(row, col) ==
    IF col \in {"created", "updated", "due_date"} THEN IsNull(row[col]) ELSE row[col] = None

\* C15: normalisation raises nothing for a raw issue with an absent or null
\* segment on a lookup path; it returns a row with the ten columns, in which the
\* column of every such path is null.
C15_NeverRaises ==
    (Normalised /\ \A k \in 1..Len(issues) : WellFormedDates(issues[k])) =>
        /\ error = NoError
        /\ Len(df) = Len(issues)
        /\ \A k \in 1..Len(issues) :
              /\ DOMAIN df[k] = {COLUMNS[c] : c \in 1..Len(COLUMNS)}
              /\ "key" \notin DOMAIN issues[k] => df[k].key = None
              /\ \A col \in DOMAIN PATHS :
                    AtPath(issues[k], PATHS[col]).t = "null" => NullIn(df[k], col)

-----------------------------------------------------------------------------
(* Properties of the remote sheet *)

\* every data row of the current push_to_gsheet call has been written
WrittenOut == (pc \in {"format", "freeze"} /\ Len(df) > 0) \/ (PushCompleted /\ Len(df) > 0)

\* C11: in every cell written to the remote sheet a null of the table is the
\* empty string, in every column, and a value of a string column is written as
\* it is.
C11_NullsBecomeEmpty ==
    WrittenOut =>
        \A r \in 1..Len(df), c \in 1..NCols(df) :
            /\ NullIn(df[r], COLUMNS[c]) => sheet.values[r + 1][c] = ""
            /\ (~NullIn(df[r], COLUMNS[c]) /\ COLUMNS[c] \notin {"created", "updated", "due_date"})
                  => sheet.values[r + 1][c] = df[r][COLUMNS[c]]

\* C17: the clear leaves the size of the worksheet, the resize step never makes
\* a dimension smaller, leaves at least one row more than the table has and at
\* least as many columns, and calls resize only when a dimension is too small.
C17_ResizeCoversNeverShrinks ==
    [][/\ pc = "clear" => (sheet'.rows = sheet.rows /\ sheet'.cols = sheet.cols)
       /\ pc = "resize" =>
            /\ sheet'.rows >= sheet.rows /\ sheet'.cols >= sheet.cols
            /\ pc' = "serialise" => (sheet'.rows >= Len(df) + 1 /\ sheet'.cols >= NCols(df))
            /\ (sheet.rows >= Len(df) + 1 /\ sheet.cols >= NCols(df))
                  => (ops' = ops /\ sheet' = sheet /\ pc' = "serialise")
            /\ ops' # ops => ops' = Append(ops, "resize")]_vars

\* The worksheet was short and wide: it has grown to the rows needed and kept
\* its columns
C17_Witness ==
    /\ pc = "serialise"
    /\ pushes = 1
    /\ ops[Len(ops)] = "resize"
    /\ Len(df) = 2
    /\ sheet0.rows < Len(df) + 1 /\ sheet.rows = Len(df) + 1
    /\ sheet0.cols > NCols(df) /\ sheet.cols = sheet0.cols

\* The calls of a push that runs to its end, the resize left out
ChunkStart(j) == 2 + 1000 * j
ChunkEnd(j) == Min(Len(df) + 1, 1001 + 1000 * j)
NChunks == CeilDiv(Len(df), 1000)
ExpectedCalls ==
    <<"authorize", "open_by_key", "get_worksheet", "clear", "update A1">>
    \o [j \in 1..NChunks |->
            "update A" \o ToString(ChunkStart(j - 1)) \o ":J" \o ToString(ChunkEnd(j - 1))]
    \o <<"format", "freeze">>
NotResize(o) == o # "resize"
Calls == SelectSeq(ops, NotResize)

\* C18: the calls of a push are, in this order, the clear, the header write to
\* A1, the data chunks of at most 1000 rows addressed to rows 2+1000j through
\* min(n+1, 1001+1000j), then the styling and the freeze; the chunk ranges are
\* contiguous from row 2 to row n+1 and inside the sheet, and table row i is on
\* sheet row i+2.
C18_ChunkedWrite ==
    /\ Len(Calls) <= Len(ExpectedCalls)
    /\ \A k \in 1..Len(Calls) : Calls[k] = ExpectedCalls[k]
    /\ \A k \in 1..Len(ops) : ops[k] = "resize" => (k > 1 /\ ops[k - 1] = "clear")
    /\ \A j \in 0..(NChunks - 1) :
          /\ ChunkEnd(j) - ChunkStart(j) + 1 \in 1..1000
          /\ j + 1 < NChunks => ChunkEnd(j) + 1 = ChunkStart(j + 1)
          /\ j + 1 = NChunks => ChunkEnd(j) = Len(df) + 1
    /\ pc = "data" => sheet.rows >= Len(df) + 1
    /\ WrittenOut => \A r \in 1..Len(df), c \in 1..NCols(df) :
                        sheet.values[r + 1][c] = SerialiseRow(df[r])[c]

\* A table of 1001 rows went out in two chunks
C18_Witness ==
    /\ PushCompleted
    /\ Len(df) = 1001
    /\ Calls = <<"authorize", "open_by_key", "get_worksheet", "clear", "update A1",
                 "update A2:J1001", "update A1002:J1002", "format", "freeze">>
    /\ sheet.values[1001][1] = "PRJ-1"
    /\ sheet.values[1002][1] = "PRJ-2"

-----------------------------------------------------------------------------
(* Properties of the backoff *)

\* C16: every 429 is followed by one wait, of the seconds the Retry-After header
\* gives when it is a number and of the default 10 seconds otherwise, and no
\* header value makes the wait raise an error.
C16_BackoffNeverRaises ==
    /\ error.kind = "ValueError" => error.at \notin {"search", "bulk"}
    /\ Len(sleeps) = Count429(log)
    /\ \A k \in 1..Len(sleeps) :
          /\ sleeps[k] >= 0
          /\ \E h \in RetryAfters :
                sleeps[k] = IF Truthy(h) /\ IntParses(h.text) THEN IntValue(h.text)
                            ELSE RETRY_429_SECONDS

-----------------------------------------------------------------------------
(* Properties of the whole run *)

TablePcs == {"push", "authorize", "open_by_key", "get_worksheet", "clear", "resize",
             "serialise", "header", "data", "format", "freeze", "excel", "done"}
Occurrences(t, x) == Cardinality({k \in 1..Len(t) : t[k] = x})
SameRows(a, b) ==
    /\ Len(a) = Len(b)
    /\ \A x \in {a[k] : k \in 1..Len(a)} : Occurrences(a, x) = Occurrences(b, x)
FlatRows == [k \in 1..Len(issues) |-> flatten_issue(issues[k])]

\* C13: the records main holds are those of the bulk fetch responses, one each;
\* the table is a permutation of their rows, duplicates kept; the local file
\* holds the rows of the table, and so does the sheet after a push that ran to
\* its end.
C13_NoDeduplication ==
    /\ pc \in TablePcs \cup {"fetched", "sort"} => issues = JoinBodies(BulkOK)
    /\ pc \in TablePcs => SameRows(df, FlatRows)
    /\ pc = "done" => excel.rows = df
    /\ PushCompleted =>
          \A r \in 1..Len(df) :
              SubSeq(sheet.values[r + 1], 1, NCols(df)) = SerialiseRow(df[r])

\* PRJ-1 came twice in the first chunk and once in the second; its three rows
\* are in the table, in the file and in the sheet
C13_Witness ==
    /\ pc = "done"
    /\ PushCompleted
    /\ Len(BulkOK) = 2
    /\ Occurrences(JoinChunks(BulkOK), "10001") = 3
    /\ Occurrences(df, RowFull) = 3
    /\ Occurrences(excel.rows, RowFull) = 3
    /\ Cardinality({r \in 2..sheet.rows : sheet.values[r][1] = "PRJ-1"}) = 3

SinkTouched == ops # <<>> \/ sheet # sheet0 \/ excel # OldFile

AllNormalised == pc \in TablePcs /\ Len(df) = Len(issues) /\ Raising(issues) = {}
PublishStep ==
    pc \in TablePcs => (log' = log /\ issues' = issues /\ df' = df /\ pc' \in TablePcs)

\* C19: a run that aborts has issued no call to the remote sheet, has left the
\* sheet as it was, and has not written the local file; a sink is touched only
\* when every record has been normalised; and from the call of push_to_gsheet
\* on no request goes to the tracker and the table does not change.
C19_FetchBeforePublish ==
    /\ [](pc = "aborted" => (~SinkTouched /\ pushes = 0))
    /\ [](SinkTouched => AllNormalised)
    /\ [][PublishStep]_vars

\* A malformed created text aborted the run after the fetch; the configured
\* sheet and the old file are untouched
C19_Witness ==
    /\ pc = "aborted"
    /\ error = Raised("ValueError", "normalise", 0, "")
    /\ Len(BulkOK) = 1
    /\ Tru(env.GSHEET_ID)
    /\ sheet.values[1][1] = "old"
    /\ excel = OldFile

-----------------------------------------------------------------------------
(* Termination of the fetch *)

Terminated == pc \in {"fetched", "aborted"}
Answered(status) == Len(log') = Len(log) + 1 /\ log'[Len(log')].status = status

\* a 429 whose wait does not raise leaves both loops exactly where they are: no
\* attempt is counted
RetryStep ==
    (Answered(429) /\ error' = NoError) =>
        /\ pc' = pc /\ served' = served /\ ids' = ids /\ next_token' = next_token
        /\ i' = i /\ out' = out
        /\ Len(sleeps') = Len(sleeps) + 1
\* a page that is not empty and carries a cursor keeps the search going: no page
\* is counted
PageStep ==
    (pc = "search" /\ Answered(200) /\ log'[Len(log')].body.issues # <<>>
        /\ Tru(log'[Len(log')].body.nextPageToken)) => pc' = "search"

\* C20: when the 429 answers are finitely many and the cursor chain is finite,
\* fetch_all_issues eventually returns or aborts; a 429 and a non-empty page
\* with a cursor each leave the loop running with nothing counted, so a server
\* that keeps sending either keeps the fetch going for ever.
C20_Termination == <>Terminated /\ [][RetryStep /\ PageStep]_vars

\* The fetch returned after as many 429 answers as the model allows, over a
\* chain of two pages and two chunks
C20_Witness ==
    /\ pc = "fetched"
    /\ Count429(log) = Max429
    /\ served = 2
    /\ Len(BulkOK) = 2
    /\ Len(sleeps) = Max429

====
